---- MODULE Spec2Model ----
(***************************************************************************)
(* Model of the in-memory activity / participation API of src/server.js    *)
(* (the later, more complete variant of the handlers, lines 302-572).      *)
(* Each request handler runs to completion, so each handler is one action. *)
(* `req' and `res' hold the last request and the response it produced.     *)
(***************************************************************************)
EXTENDS Integers, Sequences, FiniteSets, TLC

VARIABLES atividades, participacoes, req, res

vars == <<atividades, participacoes, req, res>>

---------------------------------------------------------------------------
(* Bounds of the model *)

\* cap on the records held by the two collections together
MaxRegistros == 3

\* the model stops creating or joining at the cap
Cheio == Len(atividades) + Len(participacoes) >= MaxRegistros

---------------------------------------------------------------------------
(* JavaScript values *)

\* the number NaN (Number("abc")): a number equal to nothing, itself included
NaN == -1

\* a missing JSON field or query parameter of numeric type
Undefined == -2

\* a missing string field (`a.criador' of an activity created without it)
UndefinedStr == <<"undefined">>

\* text of a path or query parameter: a decimal numeral, some other word,
\* or (query only) absent
Digits(k) == [kind |-> "digits", n |-> k]

Word == [kind |-> "word", n |-> 0]

Absent == [kind |-> "absent", n |-> 0]

\* Number(text): the numeral's value, NaN for any other text
Number(s) == IF s.kind = "digits" THEN s.n ELSE NaN

\* a === b on numbers
StrictEquals(a, b) == a # NaN /\ b # NaN /\ a = b

\* !v on a JSON number or a missing field
Falsy(v) == v = Undefined \/ v = 0 \/ v = NaN

LowerChar(c) == IF c = "A" THEN "a" ELSE IF c = "B" THEN "b" ELSE c

\* s.toLowerCase() on a string held as a sequence of characters
ToLowerCase(s) == [i \in 1..Len(s) |-> LowerChar(s[i])]

---------------------------------------------------------------------------
(* Array helpers *)

\* arr.findIndex(P), given the set of 1-based positions whose element
\* satisfies P: the 0-based index of the first of them, or -1
FindIndex(hits) ==
    IF hits = {} THEN -1
    ELSE (CHOOSE i \in hits : \A j \in hits : i <= j) - 1

\* arr.splice(index, 1) for a 0-based index: the array without that element
\* (a negative index counts from the end, as in JavaScript)
Splice(arr, index) ==
    LET at == IF index < 0 THEN Len(arr) + index + 1 ELSE index + 1
    IN  IF at < 1 \/ at > Len(arr) THEN arr
        ELSE [i \in 1..(Len(arr) - 1) |-> IF i < at THEN arr[i] ELSE arr[i + 1]]

---------------------------------------------------------------------------
(* Request inputs *)

\* user ids the requests carry
Users == {1, 2}

\* text of the :id path parameter
PathIds == {Digits(k) : k \in 1..MaxRegistros} \cup {Word}

\* text of the :userId path parameter
PathUsers == {Digits(k) : k \in Users} \cup {Word}

\* userId of a JSON body: an integer (0 included), or missing
BodyUsers == Users \cup {0, Undefined}

\* text of the ?userId= query parameter
QueryUsers == {Digits(k) : k \in Users} \cup {Absent}

\* text of the ?criador= query parameter; <<>> is the empty string
QueryCriadores == {<<"a">>, <<"b">>, <<>>, UndefinedStr}

\* POST /atividades bodies that follow the documented schema: a criador, no id
BodiesEsquema == {[id |-> Undefined, criador |-> <<"A">>]}

\* POST /atividades bodies with any supplied fields: the body is not validated,
\* so criador may be missing and an id may be supplied
BodiesLivres == [id : {1, Undefined}, criador : {<<"A">>, UndefinedStr}]

---------------------------------------------------------------------------
(* Responses *)

Ok(status, body) == [status |-> status, erro |-> "", body |-> body]

Erro(status, msg) == [status |-> status, erro |-> msg, body |-> <<>>]

NaoEncontrada == "Atividade nao encontrada"

Obrigatorio == "userId e obrigatorio"

JaParticipa == "Usuario ja participa desta atividade"

NaoParticipa == "Usuario nao participa desta atividade"

TypeError == "TypeError"

---------------------------------------------------------------------------
Init ==
    /\ atividades = <<>>
    /\ participacoes = <<>>
    /\ req = [op |-> "init"]
    /\ res = Ok(200, <<>>)

---------------------------------------------------------------------------
(* GET /atividades?criador=... *)

\* the filter callback: a.criador.toLowerCase() === criador.toLowerCase()
MesmoCriador(a, criador) == ToLowerCase(a.criador) = ToLowerCase(criador)

\* a.criador.toLowerCase() throws a TypeError on an activity without criador
FiltroLanca == \E i \in 1..Len(atividades) : atividades[i].criador = UndefinedStr

\* if (criador): a missing parameter and the empty string are both falsy
ListaResposta(criador) ==
    IF criador # UndefinedStr /\ criador # <<>>
    THEN IF FiltroLanca
         THEN Erro(500, TypeError)
         ELSE LET Match(a) == MesmoCriador(a, criador)
              IN  Ok(200, SelectSeq(atividades, Match))
    ELSE Ok(200, atividades)

ListaAtividades(criador) ==
    /\ req' = [op |-> "list", criador |-> criador]
    /\ res' = ListaResposta(criador)
    /\ UNCHANGED <<atividades, participacoes>>

---------------------------------------------------------------------------
(* GET /atividades/:id?userId=... *)

\* db.atividades.find((a) => a.id === atividadeId), as the 0-based index of
\* the record found, or -1
AchaAtividade(atividadeId) ==
    FindIndex({i \in 1..Len(atividades) :
                  StrictEquals(atividades[i].id, atividadeId)})

\* db.participacoes.some((p) => p.userId === userId && p.atividadeId === atividadeId)
Participa(userId, atividadeId) ==
    \E i \in 1..Len(participacoes) :
        /\ StrictEquals(participacoes[i].userId, userId)
        /\ StrictEquals(participacoes[i].atividadeId, atividadeId)

BuscaResposta(id, userIdQuery) ==
    LET atividadeId == Number(id)
        userId == IF userIdQuery.kind # "absent" THEN Number(userIdQuery) ELSE Undefined
        index == AchaAtividade(atividadeId)
    IN  IF index = -1
        THEN Erro(404, NaoEncontrada)
        ELSE Ok(200, [atividade |-> atividades[index + 1],
                      participa |-> IF userId # Undefined
                                    THEN Participa(userId, atividadeId)
                                    ELSE FALSE])

BuscaAtividade(id, userIdQuery) ==
    /\ req' = [op |-> "get", id |-> id, userId |-> userIdQuery]
    /\ res' = BuscaResposta(id, userIdQuery)
    /\ UNCHANGED <<atividades, participacoes>>

---------------------------------------------------------------------------
(* POST /atividades *)

\* { id: db.atividades.length + 1, ...req.body }: the spread comes second, so
\* an id in the body replaces the assigned one
Nova(body) ==
    [id |-> IF body.id # Undefined THEN body.id ELSE Len(atividades) + 1,
     criador |-> body.criador]

CriaAtividade(body) ==
    /\ ~Cheio
    /\ req' = [op |-> "create", body |-> body]
    /\ atividades' = Append(atividades, Nova(body))
    /\ res' = Ok(201, Nova(body))
    /\ UNCHANGED participacoes

---------------------------------------------------------------------------
(* DELETE /atividades/:id *)

\* a delete that also drops the participations of the removed activity
RemoveAtividadeCascata(id) ==
    LET index == AchaAtividade(Number(id))
        Outra(p) == ~StrictEquals(p.atividadeId, Number(id))
    IN  /\ req' = [op |-> "delete", id |-> id]
        /\ IF index = -1
           THEN /\ res' = Erro(404, NaoEncontrada)
                /\ UNCHANGED <<atividades, participacoes>>
           ELSE /\ atividades' = Splice(atividades, index)
                /\ res' = Ok(200, atividades[index + 1])
                /\ participacoes' = SelectSeq(participacoes, Outra)

RemoveAtividade(id) ==
    LET index == AchaAtividade(Number(id))
    IN  /\ req' = [op |-> "delete", id |-> id]
        /\ IF index = -1
           THEN /\ res' = Erro(404, NaoEncontrada)
                /\ UNCHANGED <<atividades, participacoes>>
           ELSE /\ atividades' = Splice(atividades, index)
                /\ res' = Ok(200, atividades[index + 1])
                /\ UNCHANGED participacoes

---------------------------------------------------------------------------
(* POST /atividades/:id/join *)

\* db.participacoes.findIndex / find of the pair: 0-based index, or -1
AchaParticipacao(userId, atividadeId) ==
    FindIndex({i \in 1..Len(participacoes) :
                  /\ StrictEquals(participacoes[i].userId, userId)
                  /\ StrictEquals(participacoes[i].atividadeId, atividadeId)})

\* a join that pushes without looking for the pair first
JoinSemJaParticipa(id, userId) ==
    IF Falsy(userId) THEN Obrigatorio
    ELSE IF AchaAtividade(Number(id)) = -1 THEN NaoEncontrada
    ELSE ""

\* a join that looks the pair up before it looks the activity up
JoinSemAtividade(id, userId) ==
    IF Falsy(userId) THEN Obrigatorio
    ELSE IF AchaParticipacao(userId, Number(id)) # -1 THEN JaParticipa
    ELSE IF AchaAtividade(Number(id)) = -1 THEN NaoEncontrada
    ELSE ""

\* a join that looks the pair up by the activity alone
JoinSoAtividade(id, userId) ==
    IF Falsy(userId) THEN Obrigatorio
    ELSE IF AchaAtividade(Number(id)) = -1 THEN NaoEncontrada
    ELSE IF \E i \in 1..Len(participacoes) :
                StrictEquals(participacoes[i].atividadeId, Number(id))
         THEN JaParticipa
    ELSE ""

\* the early returns of the handler, in order: the error it answers with, or
\* "" when it goes on to push the pair
JoinErro(id, userId) ==
    IF Falsy(userId) THEN Obrigatorio
    ELSE IF AchaAtividade(Number(id)) = -1 THEN NaoEncontrada
    ELSE IF AchaParticipacao(userId, Number(id)) # -1 THEN JaParticipa
    ELSE ""

Join(id, userId) ==
    LET atividadeId == Number(id)
        erro == JoinErro(id, userId)
    IN  /\ req' = [op |-> "join", id |-> id, userId |-> userId]
        /\ UNCHANGED atividades
        /\ IF erro = Obrigatorio
           THEN /\ res' = Erro(400, Obrigatorio)
                /\ UNCHANGED participacoes
           ELSE IF erro = NaoEncontrada
           THEN /\ res' = Erro(404, NaoEncontrada)
                /\ UNCHANGED participacoes
           ELSE IF erro = JaParticipa
           THEN /\ res' = Erro(400, JaParticipa)
                /\ UNCHANGED participacoes
           ELSE /\ ~Cheio
                /\ participacoes' = Append(participacoes,
                        [userId |-> userId, atividadeId |-> atividadeId])
                /\ res' = Ok(200, [atividadeId |-> atividadeId, userId |-> userId])

---------------------------------------------------------------------------
(* DELETE /usuarios/:userId/atividades/:id/leave *)

\* a leave that compares the path text itself, which no stored number equals
LeaveIndexSemNumber(userIdParam, id) == AchaParticipacao(NaN, Number(id))

\* the findIndex of the handler, on the converted path parameters
LeaveIndex(userIdParam, id) == AchaParticipacao(Number(userIdParam), Number(id))

\* a leave that splices before it tests the index: splice(-1, 1) drops the
\* last pair
LeaveSpliceAntes(userIdParam, id) ==
    LET index == LeaveIndex(userIdParam, id)
    IN  /\ req' = [op |-> "leave", id |-> id, userId |-> userIdParam]
        /\ UNCHANGED atividades
        /\ participacoes' = Splice(participacoes, index)
        /\ IF index = -1
           THEN res' = Erro(404, NaoParticipa)
           ELSE res' = Ok(200, [atividadeId |-> Number(id),
                                userId |-> Number(userIdParam)])

Leave(userIdParam, id) ==
    LET index == LeaveIndex(userIdParam, id)
    IN  /\ req' = [op |-> "leave", id |-> id, userId |-> userIdParam]
        /\ UNCHANGED atividades
        /\ IF index = -1
           THEN /\ res' = Erro(404, NaoParticipa)
                /\ UNCHANGED participacoes
           ELSE /\ participacoes' = Splice(participacoes, index)
                /\ res' = Ok(200, [atividadeId |-> Number(id),
                                   userId |-> Number(userIdParam)])

---------------------------------------------------------------------------
(* The service with unvalidated create bodies *)

Next ==
    \/ \E criador \in QueryCriadores : ListaAtividades(criador)
    \/ \E id \in PathIds, u \in QueryUsers : BuscaAtividade(id, u)
    \/ \E body \in BodiesLivres : CriaAtividade(body)
    \/ \E id \in PathIds : RemoveAtividade(id)
    \/ \E id \in PathIds, u \in BodyUsers : Join(id, u)
    \/ \E id \in PathIds, u \in PathUsers : Leave(u, id)

Spec == Init /\ [][Next]_vars

(* The service with create bodies that follow the documented schema *)

NextEsquema ==
    \/ \E criador \in QueryCriadores : ListaAtividades(criador)
    \/ \E id \in PathIds, u \in QueryUsers : BuscaAtividade(id, u)
    \/ \E body \in BodiesEsquema : CriaAtividade(body)
    \/ \E id \in PathIds : RemoveAtividade(id)
    \/ \E id \in PathIds, u \in BodyUsers : Join(id, u)
    \/ \E id \in PathIds, u \in PathUsers : Leave(u, id)

SpecEsquema == Init /\ [][NextEsquema]_vars

---------------------------------------------------------------------------
(* Properties *)

\* some stored participation refers to activity id a
TemParDe(a) == \E i \in 1..Len(participacoes) : participacoes[i].atividadeId = a

\* C1: in every reachable state the participation collection holds at most
\* one record for each (userId, atividadeId) pair.
C1_ParUnico ==
    \A i, j \in 1..Len(participacoes) :
        (/\ participacoes[i].userId = participacoes[j].userId
         /\ participacoes[i].atividadeId = participacoes[j].atividadeId) => i = j

\* a repeated join was refused while two users take part in the same activity
C1_Witness ==
    /\ req.op = "join"
    /\ res.erro = JaParticipa
    /\ Len(participacoes) = 2
    /\ participacoes[1].atividadeId = participacoes[2].atividadeId

\* C2: in every state reachable by create and delete, all stored activities
\* have pairwise distinct ids.
C2_IdsDistintos ==
    \A i, j \in 1..Len(atividades) :
        atividades[i].id = atividades[j].id => i = j

\* C3: a get of A.id issued right after the create that returned A answers
\* with a record equal to A.
C3_GetAposCreate ==
    [][(/\ req.op = "create"
        /\ req'.op = "get"
        /\ Number(req'.id) = res.body.id)
       => (res'.status = 200 /\ res'.body.atividade = res.body)]_vars

\* C4: delete of a stored id removes exactly one record, keeping the others
\* in order, and a get of that id right after it signals NotFound; delete of
\* an id that is not stored signals NotFound.
C4_DeleteRemove ==
    [][/\ (req'.op = "delete" /\ AchaAtividade(Number(req'.id)) # -1)
            => /\ res'.status = 200
               /\ Len(atividades') = Len(atividades) - 1
               /\ atividades' = Splice(atividades, AchaAtividade(Number(req'.id)))
       /\ (req'.op = "delete" /\ AchaAtividade(Number(req'.id)) = -1)
            => res' = Erro(404, NaoEncontrada)
       /\ (req.op = "delete" /\ res.status = 200 /\ req'.op = "get" /\ req'.id = req.id)
            => res' = Erro(404, NaoEncontrada)]_vars

\* C5 as stated: a join on an activity id that no stored activity has signals
\* ActivityNotFound and inserts nothing, for every userId value.
C5_JoinInexistente ==
    [][(req'.op = "join" /\ AchaAtividade(Number(req'.id)) = -1)
       => (res' = Erro(404, NaoEncontrada) /\ participacoes' = participacoes)]_vars

\* C5 as amended: a join on an activity id that no stored activity has inserts
\* nothing; it signals ActivityNotFound when the body carries a userId, and
\* InvalidInput when the userId is missing or falsy, whatever the
\* participation collection holds.
C5_JoinInexistenteComUserId ==
    [][(req'.op = "join" /\ AchaAtividade(Number(req'.id)) = -1)
       => /\ participacoes' = participacoes
          /\ res' = IF Falsy(req'.userId) THEN Erro(400, Obrigatorio)
                    ELSE Erro(404, NaoEncontrada)]_vars

\* a join was refused with ActivityNotFound while a pair of that activity id
\* is still stored
C5_Witness ==
    /\ req.op = "join"
    /\ res = Erro(404, NaoEncontrada)
    /\ TemParDe(Number(req.id))

\* C6: for a stored activity a and a user u not taking part in it, join(u, a)
\* signals Success and appends the pair; the same join right after it signals
\* AlreadyJoined and leaves the participations as they were; get reports
\* participa = true after the first call and after the second.
C6_JoinDuasVezes ==
    [][\A id \in PathIds, u \in Users :
        LET r == [op |-> "join", id |-> id, userId |-> u]
        IN  /\ (/\ req' = r
                /\ AchaAtividade(Number(id)) # -1
                /\ ~Participa(u, Number(id)))
                 => /\ res'.status = 200
                    /\ participacoes' = Append(participacoes,
                           [userId |-> u, atividadeId |-> Number(id)])
                    /\ BuscaResposta(id, Digits(u))'.body.participa
            /\ (req = r /\ res.status = 200 /\ req' = r)
                 => /\ res' = Erro(400, JaParticipa)
                    /\ participacoes' = participacoes
                    /\ BuscaResposta(id, Digits(u))'.body.participa]_vars

\* a repeated join was refused and get reports the user as taking part
C6_Witness ==
    /\ req.op = "join"
    /\ res = Erro(400, JaParticipa)
    /\ BuscaResposta(req.id, Digits(req.userId)).status = 200
    /\ BuscaResposta(req.id, Digits(req.userId)).body.participa

C8_ErroSemEfeito ==
    [][res'.erro # ""
       => (atividades' = atividades /\ participacoes' = participacoes)]_vars

\* a leave was refused with NotParticipating while both collections hold records
C8_Witness ==
    /\ req.op = "leave"
    /\ res = Erro(404, NaoParticipa)
    /\ Len(atividades) >= 1
    /\ Len(participacoes) >= 1

\* what list is specified to return: everything without a filter (a missing
\* or empty criador parameter), else the activities whose creator is X up to
\* case, none for an activity that has no creator
EsperadoLista(criador) ==
    LET Match(a) == a.criador # UndefinedStr /\ MesmoCriador(a, criador)
    IN  IF criador \in {UndefinedStr, <<>>} THEN atividades
        ELSE SelectSeq(atividades, Match)

\* C9: list never errors; without a filter it returns every stored activity
\* in insertion order, with criador = X exactly the activities whose creator
\* equals X case-insensitively.
C9_ListaNuncaFalha ==
    req.op = "list" => res = Ok(200, EsperadoLista(req.criador))

\* C10: a delete of an activity leaves the participation collection as it
\* was, and join and leave leave the activity collection as it was.
C10_SemCascata ==
    [][/\ req'.op = "delete" => participacoes' = participacoes
       /\ req'.op \in {"join", "leave"} => atividades' = atividades]_vars

\* an activity was deleted and a pair that refers to it is still stored
C10_Witness ==
    /\ req.op = "delete"
    /\ res.status = 200
    /\ TemParDe(Number(req.id))
    /\ AchaAtividade(Number(req.id)) = -1

====
